---------------------------- MODULE Spec2Model ----------------------------
(***************************************************************************)
(* Ripple Effect solver: the Puzzle class (Ripple.py), the brute-force     *)
(* solver (BruteForce_Solver.py) and the minimum-remaining-values solver   *)
(* (Intelligent_Solver_Heuristic.py), as a state machine.                  *)
(*                                                                         *)
(* Rows and columns are 0-based as in the source.  A grid is a function    *)
(* row -> (col -> value); the Python lists that hold it live in `heap`,    *)
(* and a Puzzle object refers to its grid by address, so that sharing a    *)
(* list between two Puzzle objects is expressible.                         *)
(***************************************************************************)
EXTENDS Integers, Sequences, FiniteSets, TLC

VARIABLES
    heap,       \* sequence of grids: heap[a] is the nested list at address a
    puzzles,    \* Puzzle objects by the name of the variable that holds them
    file,       \* the puzzle file: height, width and the blanks between cells
    input,      \* the grid read from the puzzle file (never written again)
    pc,         \* position of the driver (compare)
    active,     \* name of the Puzzle object the running solver works on
    stack,      \* solve_rec frames of the running solver, innermost last
    calls,      \* calls[0] of the running solver
    backtracks, \* number of backtrack() calls the running solver has made
    outcome,    \* per solver: how solve() ended, what it returned, calls[0]
    last,       \* the most recent Puzzle method call, with the state before it
    earlier,    \* the call before `last`
    nops        \* number of direct method calls made so far (SpecAPI only)

vars == <<heap, puzzles, file, input, pc, active, stack, calls, backtracks, outcome, last,
          earlier, nops>>

----------------------------------------------------------------------------
(* Bounds of the model *)

\* at most this many cells of an input puzzle hold a clue
MaxClues == 3

\* at most this many direct method calls in SpecAPI
MaxOps == 2

----------------------------------------------------------------------------
(* Values *)

\* the empty marker "." of a cell
Empty == 0

\* Python's None, for a region that get_region did not find
None == <<>>

\* len() of a 0-based list
Len0(f) == Cardinality(DOMAIN f)

Abs(x) == IF x < 0 THEN -x ELSE x

----------------------------------------------------------------------------
(* Puzzle files: height, width and the positions of the text that hold a  *)
(* blank where a wall could be (str_row, str_col), as read_puzzle sees    *)
(* them.                                                                   *)

Shape(h, w, open) == [height |-> h, width |-> w, open |-> open]

\* every wall position between two cells of an h x w puzzle
Inner(h, w) ==
    {<<2 * r + 1, 2 * c + 2>> : r \in 0..(h - 1), c \in 0..(w - 2)}
        \cup {<<2 * r + 2, 2 * c + 1>> : r \in 0..(h - 2), c \in 0..(w - 1)}

Shapes ==
    { Shape(1, 1, {}),
      Shape(1, 2, {}),
      Shape(1, 2, Inner(1, 2)),
      Shape(2, 1, {}),
      Shape(1, 3, {}),
      Shape(1, 3, Inner(1, 3)),
      Shape(1, 3, {<<1, 2>>}),
      Shape(2, 2, {}),
      Shape(2, 2, Inner(2, 2)),
      Shape(2, 2, {<<1, 2>>, <<3, 2>>}),
      Shape(2, 2, {<<2, 1>>, <<2, 3>>}),
      Shape(2, 3, {<<1, 2>>, <<2, 1>>, <<2, 3>>, <<3, 2>>}),
      Shape(2, 3, {<<1, 2>>, <<1, 4>>, <<3, 2>>, <<3, 4>>}),
      Shape(3, 2, {<<1, 2>>, <<2, 1>>, <<2, 3>>, <<3, 2>>}),
      Shape(3, 2, {<<2, 1>>, <<4, 1>>, <<2, 3>>, <<4, 3>>}) }

Cells(h, w) == {<<r, c>> : r \in 0..(h - 1), c \in 0..(w - 1)}

----------------------------------------------------------------------------
(* Region extraction *)

RECURSIVE solve_region(_, _, _, _, _, _)
RECURSIVE ExtendRegion(_, _, _, _, _, _, _)

\* the loop `for square in new_squares` of solve_region, from index i on
ExtendRegion(new_squares, i, result, width, height, open, has_region) ==
    IF i > Len(new_squares)
    THEN [result |-> result, has_region |-> has_region]
    ELSE LET square == new_squares[i] IN
         IF square \notin has_region
         THEN LET sub == solve_region(square[1], square[2], width, height,
                                      open, has_region)
              IN  ExtendRegion(new_squares, i + 1, result \o sub.result,
                               width, height, open, sub.has_region)
         ELSE ExtendRegion(new_squares, i + 1, result, width, height, open,
                           has_region)

\* solve_region without `check left`
solve_region_no_left(row, col, width, height, open, has_region) ==
    LET str_row == (2 * row) + 1
        str_col == (2 * col) + 1
        above == IF row > 0 /\ <<str_row - 1, str_col>> \in open
                 THEN <<(<<row - 1, col>>)>> ELSE <<>>
        below == IF row + 1 < height /\ <<str_row + 1, str_col>> \in open
                 THEN <<(<<row + 1, col>>)>> ELSE <<>>
        right == IF col + 1 < width /\ <<str_row, str_col + 1>> \in open
                 THEN <<(<<row, col + 1>>)>> ELSE <<>>
        new_squares == above \o below \o right
    IN  ExtendRegion(new_squares, 1, <<(<<row, col>>)>>, width, height, open,
                     has_region \cup {<<row, col>>})

solve_region(row, col, width, height, open, has_region) ==
    LET str_row == (2 * row) + 1
        str_col == (2 * col) + 1
        above == IF row > 0 /\ <<str_row - 1, str_col>> \in open
                 THEN <<(<<row - 1, col>>)>> ELSE <<>>
        below == IF row + 1 < height /\ <<str_row + 1, str_col>> \in open
                 THEN <<(<<row + 1, col>>)>> ELSE <<>>
        left  == IF col > 0 /\ <<str_row, str_col - 1>> \in open
                 THEN <<(<<row, col - 1>>)>> ELSE <<>>
        right == IF col + 1 < width /\ <<str_row, str_col + 1>> \in open
                 THEN <<(<<row, col + 1>>)>> ELSE <<>>
        new_squares == above \o below \o left \o right
    IN  ExtendRegion(new_squares, 1, <<(<<row, col>>)>>, width, height, open,
                     has_region \cup {<<row, col>>})

RECURSIVE ReadRegions(_, _, _, _, _, _)

\* the loop of read_puzzle over the cells in row-major order, from cell k on
ReadRegions(k, width, height, open, has_region, regions) ==
    IF k >= width * height
    THEN regions
    ELSE LET row == k \div width
             col == k % width
         IN  IF <<row, col>> \notin has_region
             THEN LET res == solve_region(row, col, width, height, open,
                                          has_region)
                  IN  ReadRegions(k + 1, width, height, open, res.has_region,
                                  Append(regions, res.result))
             ELSE ReadRegions(k + 1, width, height, open, has_region, regions)

\* region_map[square] = result, for every square of every region
RegionMapOf(regions) ==
    LET covered == UNION {{regions[i][j] : j \in 1..Len(regions[i])} :
                          i \in 1..Len(regions)}
    IN  [sq \in covered |->
            LET last_i == CHOOSE i \in 1..Len(regions) :
                    /\ \E j \in 1..Len(regions[i]) : regions[i][j] = sq
                    /\ \A i2 \in (i + 1)..Len(regions) :
                          \A j \in 1..Len(regions[i2]) : regions[i2][j] # sq
            IN  regions[last_i]]

----------------------------------------------------------------------------
(* class Puzzle *)

\* Puzzle.__init__: the fields, solved = False, and the count of "." cells
Puzzle(width, height, puzzle, regions, region_map, grid) ==
    [ width |-> width,
      height |-> height,
      puzzle |-> puzzle,
      regions |-> regions,
      region_map |-> region_map,
      solved |-> FALSE,
      empty_slots_left |->
          Cardinality({sq \in {<<r, c>> : r \in DOMAIN grid, c \in 0..(width - 1)} :
                          sq[2] \in DOMAIN grid[sq[1]] /\ grid[sq[1]][sq[2]] = Empty}) ]

get_region(self, square) ==
    IF square \in DOMAIN self.region_map THEN self.region_map[square] ELSE None

\* Puzzle.get
get(h, self, square) == h[self.puzzle][square[1]][square[2]]

RECURSIVE ScanLine_strict(_, _, _)

\* the line loop with `<` for `<=`: equal values exactly `value` apart pass
ScanLine_strict(line, pos, prev) ==
    IF pos >= Len0(line)
    THEN TRUE
    ELSE LET elem == line[pos] IN
         IF elem = Empty
         THEN ScanLine_strict(line, pos + 1, prev)
         ELSE IF elem \notin DOMAIN prev
         THEN ScanLine_strict(line, pos + 1, prev @@ (elem :> <<pos>>))
         ELSE IF \E i \in 1..Len(prev[elem]) : pos - prev[elem][i] < elem
         THEN FALSE
         ELSE ScanLine_strict(line, pos + 1, [prev EXCEPT ![elem] = Append(@, pos)])

RECURSIVE ScanLine(_, _, _)

\* one `check row` / `check col` loop of is_valid over the values of a line:
\* prev maps a value to the list of positions where it was seen
ScanLine(line, pos, prev) ==
    IF pos >= Len0(line)
    THEN TRUE
    ELSE LET elem == line[pos] IN
         IF elem = Empty
         THEN ScanLine(line, pos + 1, prev)
         ELSE IF elem \notin DOMAIN prev
         THEN ScanLine(line, pos + 1, prev @@ (elem :> <<pos>>))
         ELSE IF \E i \in 1..Len(prev[elem]) : pos - prev[elem][i] <= elem
         THEN FALSE
         ELSE ScanLine(line, pos + 1, [prev EXCEPT ![elem] = Append(@, pos)])

RECURSIVE RegionLoop(_, _, _, _, _)

\* the loop of is_region_valid over the squares of a region, from index i on
RegionLoop(h, self, region, i, seen) ==
    IF i > Len(region)
    THEN TRUE
    ELSE LET number == get(h, self, region[i]) IN
         IF number \in seen
         THEN FALSE
         ELSE RegionLoop(h, self, region, i + 1,
                         IF number # Empty THEN seen \cup {number} ELSE seen)

\* is_region_valid without the check against `seen`
is_region_valid_unseen(h, self, region) == region # None

is_region_valid(h, self, region) ==
    IF region = None THEN FALSE ELSE RegionLoop(h, self, region, 1, {})

is_valid(h, self, row, col, check_region) ==
    LET g == h[self.puzzle]
        row_line == g[row]
        col_line == [p_row \in DOMAIN g |-> g[p_row][col]]
    IN  IF ~ScanLine(row_line, 0, <<>>)
        THEN FALSE
        ELSE IF ~ScanLine(col_line, 0, <<>>)
        THEN FALSE
        ELSE IF ~check_region
        THEN TRUE
        ELSE is_region_valid(h, self, get_region(self, <<row, col>>))

\* test without line 87: a rejected num stays in the cell
test_no_restore(h, self, row, col, num) ==
    LET h1 == [h EXCEPT ![self.puzzle][row][col] = num]
    IN  IF is_valid(h1, self, row, col, TRUE)
        THEN [ret |-> TRUE, heap |-> h1,
              self |-> [self EXCEPT !.empty_slots_left = @ - 1]]
        ELSE [ret |-> FALSE, heap |-> h1, self |-> self]

\* Puzzle.test: the value returned, the heap and the object afterwards
test(h, self, row, col, num) ==
    LET temp == h[self.puzzle][row][col]
        h1 == [h EXCEPT ![self.puzzle][row][col] = num]
    IN  IF is_valid(h1, self, row, col, TRUE)
        THEN [ret |-> TRUE, heap |-> h1,
              self |-> [self EXCEPT !.empty_slots_left = @ - 1]]
        ELSE [ret |-> FALSE,
              heap |-> [h1 EXCEPT ![self.puzzle][row][col] = temp],
              self |-> self]

\* backtrack without line 193: the count is not put back
backtrack_no_count(h, self, row, col) ==
    [heap |-> [h EXCEPT ![self.puzzle][row][col] = Empty], self |-> self]

\* Puzzle.backtrack
backtrack(h, self, row, col) ==
    [heap |-> [h EXCEPT ![self.puzzle][row][col] = Empty],
     self |-> [self EXCEPT !.empty_slots_left = @ + 1]]

RECURSIVE RowColLoop(_, _, _, _)

\* the loop `check each row and column` of is_solved, from row `row` on
RowColLoop(h, self, row, col0) ==
    IF row >= self.height
    THEN TRUE
    ELSE LET col == col0 % self.width IN
         IF ~is_valid(h, self, row, col, FALSE)
         THEN FALSE
         ELSE RowColLoop(h, self, row + 1, col + 1)

\* Puzzle.is_solved: the value returned and the object afterwards
is_solved(h, self) ==
    IF self.solved
    THEN [ret |-> TRUE, self |-> self]
    ELSE IF self.empty_slots_left > 0
    THEN [ret |-> FALSE, self |-> self]
    ELSE IF \E row \in 0..(self.height - 1), col \in 0..(self.width - 1) :
                h[self.puzzle][row][col] = Empty
    THEN [ret |-> FALSE, self |-> self]
    ELSE IF ~RowColLoop(h, self, 0, 0)
    THEN [ret |-> FALSE, self |-> self]
    ELSE IF \E i \in 1..Len(self.regions) :
                ~is_region_valid(h, self, self.regions[i])
    THEN [ret |-> FALSE, self |-> self]
    ELSE [ret |-> TRUE, self |-> [self EXCEPT !.solved = TRUE]]

\* copy that hands the original's nested list to the new Puzzle
copy_alias(h, self) ==
    [heap |-> h,
     ret |-> Puzzle(self.width, self.height, self.puzzle, self.regions,
                    self.region_map, h[self.puzzle])]

\* Puzzle.copy: a new nested list filled cell by cell, and a new Puzzle on it;
\* the new list gets the next free address
copy(h, self) ==
    LET puzzle_copy == [row \in 0..(self.height - 1) |->
                           [col \in 0..(self.width - 1) |->
                               h[self.puzzle][row][col]]]
        addr == Len(h) + 1
    IN  [heap |-> Append(h, puzzle_copy),
         ret |-> Puzzle(self.width, self.height, addr, self.regions,
                        self.region_map, puzzle_copy)]

\* read_puzzle, from the text's dimensions, blanks and cell characters
read_puzzle(shape, puzzle_squares) ==
    LET regions == ReadRegions(0, shape.width, shape.height, shape.open, {}, <<>>)
    IN  Puzzle(shape.width, shape.height, 1, regions, RegionMapOf(regions),
               puzzle_squares)

----------------------------------------------------------------------------
(* Records of the model's bookkeeping *)

\* a method call on the Puzzle object named obj, with the heap and the
\* objects as they were before it
Call(op, obj, row, col, num, ret) ==
    [op |-> op, obj |-> obj, row |-> row, col |-> col, num |-> num,
     ret |-> ret, heap |-> heap, puzzles |-> puzzles]

NoCall ==
    [op |-> "none", obj |-> "", row |-> 0, col |-> 0, num |-> 0,
     ret |-> FALSE, heap |-> <<>>, puzzles |-> <<>>]

NoOutcome == [status |-> "none", result |-> "", calls |-> 0]

Top == stack[Len(stack)]

Pop == SubSeq(stack, 1, Len(stack) - 1)

SetTop(frame) == [stack EXCEPT ![Len(stack)] = frame]

----------------------------------------------------------------------------
(* The puzzles the model starts from: a shape of `shapes`, at most        *)
(* MaxClues clue cells, every clue within 1..size of its region.          *)

InitOn(shapes) ==
    \E shape \in shapes :
      \E K \in SUBSET Cells(shape.height, shape.width) :
        /\ Cardinality(K) <= MaxClues
        /\ LET blank == [row \in 0..(shape.height - 1) |->
                            [col \in 0..(shape.width - 1) |-> Empty]]
               rmap == read_puzzle(shape, blank).region_map
           IN  \E clue \in [K -> 1..(shape.height * shape.width)] :
                 /\ \A sq \in K : clue[sq] <= Len(rmap[sq])
                 /\ LET puzzle_squares ==
                            [row \in 0..(shape.height - 1) |->
                                [col \in 0..(shape.width - 1) |->
                                    IF <<row, col>> \in K
                                    THEN clue[<<row, col>>] ELSE Empty]]
                    IN  /\ heap = <<puzzle_squares>>
                        /\ puzzles = ("puzzle" :> read_puzzle(shape, puzzle_squares))
                        /\ file = shape
                        /\ input = puzzle_squares
    /\ pc = "copy1"
    /\ active = ""
    /\ stack = <<>>
    /\ calls = 0
    /\ backtracks = 0
    /\ outcome = [bf |-> NoOutcome, h |-> NoOutcome]
    /\ last = NoCall
    /\ earlier = NoCall
    /\ nops = 0

Init == InitOn(Shapes)

----------------------------------------------------------------------------
(* compare: the copies *)

Copy1 ==
    /\ pc = "copy1"
    /\ LET c == copy(heap, puzzles["puzzle"]) IN
         /\ heap' = c.heap
         /\ puzzles' = puzzles @@ ("puzzle_copy_1" :> c.ret)
    /\ pc' = "bf_solve"
    /\ UNCHANGED <<file, input, active, stack, calls, outcome, last, earlier, nops, backtracks>>

Copy2 ==
    /\ pc = "copy2"
    /\ LET c == copy(heap, puzzles["puzzle"]) IN
         /\ heap' = c.heap
         /\ puzzles' = puzzles @@ ("puzzle_copy_2" :> c.ret)
    /\ pc' = "h_solve"
    /\ UNCHANGED <<file, input, active, stack, calls, outcome, last, earlier, nops, backtracks>>

----------------------------------------------------------------------------
(* BruteForce_Solver *)

\* a call of solve_rec; `entry` is the model's record of the grid the call
\* found when it was entered
BFFrame(row, col) ==
    [row |-> row, col |-> col, num |-> 0, max_num |-> 0, at |-> "enter",
     entry |-> <<>>]

\* `result.is_solved` names the bound method without calling it: an object
\* that is always true
is_solved_attr(result) == TRUE

\* solve, up to the call of solve_rec(puzzle, 0, 0, calls)
BFSolve ==
    /\ pc = "bf_solve"
    /\ active' = "puzzle_copy_1"
    /\ calls' = 0
    /\ backtracks' = 0
    /\ stack' = <<BFFrame(0, 0)>>
    /\ pc' = "bf_rec"
    /\ UNCHANGED <<heap, puzzles, file, input, outcome, last, earlier, nops>>

\* solve_rec from its entry to the return, the recursive call of line 52, the
\* start of the loop, or the failing index of line 51
BFEnter ==
    /\ pc = "bf_rec" /\ stack # <<>> /\ Top.at = "enter"
    /\ calls' = calls + 1
    /\ LET self == puzzles[active]
           s1 == is_solved(heap, self)
           wrap == Top.col >= self.width
           col == IF wrap THEN 0 ELSE Top.col
           row == IF wrap THEN Top.row + 1 ELSE Top.row
           s2 == is_solved(heap, s1.self)
       IN  IF s1.ret
           THEN /\ puzzles' = [puzzles EXCEPT ![active] = s1.self]
                /\ stack' = Pop
                /\ UNCHANGED <<pc, outcome>>
           ELSE IF row >= self.height /\ s2.ret
           THEN /\ puzzles' = [puzzles EXCEPT ![active] = s2.self]
                /\ stack' = Pop
                /\ UNCHANGED <<pc, outcome>>
           ELSE IF row \notin DOMAIN heap[self.puzzle]
           THEN \* puzzle[row] raises IndexError; solve does not return
                /\ outcome' = [outcome EXCEPT !.bf =
                       [status |-> "IndexError", result |-> "", calls |-> calls + 1]]
                /\ stack' = <<>>
                /\ pc' = "copy2"
                /\ UNCHANGED puzzles
           ELSE IF heap[self.puzzle][row][col] # Empty
           THEN /\ stack' = Append(SetTop([Top EXCEPT !.row = row, !.col = col,
                                                      !.at = "tail",
                                                      !.entry = heap[self.puzzle]]),
                                   BFFrame(row, col + 1))
                /\ UNCHANGED <<puzzles, pc, outcome>>
           ELSE /\ stack' = SetTop([row |-> row, col |-> col, num |-> 0,
                                    max_num |-> Len(get_region(self, <<row, col>>)),
                                    at |-> "loop",
                                    entry |-> heap[self.puzzle]])
                /\ UNCHANGED <<puzzles, pc, outcome>>
    /\ UNCHANGED <<heap, file, input, active, last, earlier, nops, backtracks>>

\* the loop trying the values from max_num down
BFTest_descending ==
    /\ pc = "bf_rec" /\ stack # <<>> /\ Top.at = "loop"
    /\ Top.num < Top.max_num
    /\ LET num == Top.max_num - Top.num
           t == test(heap, puzzles[active], Top.row, Top.col, num)
           here == [Top EXCEPT !.num = Top.num + 1, !.at = "check"]
       IN  /\ heap' = t.heap
           /\ puzzles' = [puzzles EXCEPT ![active] = t.self]
           /\ last' = Call("test", active, Top.row, Top.col, num, t.ret)
           /\ stack' = IF t.ret
                       THEN Append(SetTop(here), BFFrame(Top.row, Top.col + 1))
                       ELSE SetTop(here)
    /\ UNCHANGED <<file, input, pc, active, calls, outcome, earlier, nops, backtracks>>

\* the loop pass with `num + 1` tested and num left as it is
BFTest_no_increment ==
    /\ pc = "bf_rec" /\ stack # <<>> /\ Top.at = "loop"
    /\ Top.num < Top.max_num
    /\ LET num == Top.num + 1
           t == test(heap, puzzles[active], Top.row, Top.col, num)
           here == [Top EXCEPT !.at = "check"]
       IN  /\ heap' = t.heap
           /\ puzzles' = [puzzles EXCEPT ![active] = t.self]
           /\ last' = Call("test", active, Top.row, Top.col, num, t.ret)
           /\ stack' = IF t.ret
                       THEN Append(SetTop(here), BFFrame(Top.row, Top.col + 1))
                       ELSE SetTop(here)
    /\ UNCHANGED <<file, input, pc, active, calls, outcome, earlier, nops, backtracks>>

\* one pass of the while loop up to the end of line 59: num += 1, test, and
\* the recursive call when the test succeeded
BFTest ==
    /\ pc = "bf_rec" /\ stack # <<>> /\ Top.at = "loop"
    /\ Top.num < Top.max_num
    /\ LET num == Top.num + 1
           t == test(heap, puzzles[active], Top.row, Top.col, num)
           here == [Top EXCEPT !.num = num, !.at = "check"]
       IN  /\ heap' = t.heap
           /\ puzzles' = [puzzles EXCEPT ![active] = t.self]
           /\ last' = Call("test", active, Top.row, Top.col, num, t.ret)
           /\ stack' = IF t.ret
                       THEN Append(SetTop(here), BFFrame(Top.row, Top.col + 1))
                       ELSE SetTop(here)
    /\ UNCHANGED <<file, input, pc, active, calls, outcome, earlier, nops, backtracks>>

\* the loop without lines 60-61: it goes on after a solved recursive call
BFCheck_no_return ==
    /\ pc = "bf_rec" /\ stack # <<>> /\ Top.at = "check"
    /\ stack' = SetTop([Top EXCEPT !.at = "loop"])
    /\ UNCHANGED <<heap, puzzles, file, input, pc, active, calls, outcome, last,
                   earlier, nops, backtracks>>

\* lines 60-61
BFCheck ==
    /\ pc = "bf_rec" /\ stack # <<>> /\ Top.at = "check"
    /\ LET s == is_solved(heap, puzzles[active]) IN
         /\ puzzles' = [puzzles EXCEPT ![active] = s.self]
         /\ stack' = IF s.ret THEN Pop ELSE SetTop([Top EXCEPT !.at = "loop"])
    /\ UNCHANGED <<heap, file, input, pc, active, calls, outcome, last, earlier, nops, backtracks>>

\* the end of the loop without line 62: the call returns and leaves its cell
BFBacktrack_no_reset ==
    /\ pc = "bf_rec" /\ stack # <<>> /\ Top.at = "loop"
    /\ Top.num >= Top.max_num
    /\ stack' = Pop
    /\ UNCHANGED <<heap, puzzles, file, input, pc, active, calls, outcome, last,
                   earlier, nops, backtracks>>

\* the loop has ended: lines 62 and 64
BFBacktrack ==
    /\ pc = "bf_rec" /\ stack # <<>> /\ Top.at = "loop"
    /\ Top.num >= Top.max_num
    /\ LET b == backtrack(heap, puzzles[active], Top.row, Top.col) IN
         /\ heap' = b.heap
         /\ puzzles' = [puzzles EXCEPT ![active] = b.self]
    /\ last' = Call("backtrack", active, Top.row, Top.col, 0, FALSE)
    /\ backtracks' = backtracks + 1
    /\ stack' = Pop
    /\ UNCHANGED <<file, input, pc, active, calls, outcome, earlier, nops>>

\* the call of line 52 has returned: return its value
BFTailReturn ==
    /\ pc = "bf_rec" /\ stack # <<>> /\ Top.at = "tail"
    /\ stack' = Pop
    /\ UNCHANGED <<heap, puzzles, file, input, pc, active, calls, outcome, last,
                   earlier, nops, backtracks>>

\* solve, from the return of solve_rec (which returns the puzzle) on
BFSolveReturn ==
    /\ pc = "bf_rec" /\ stack = <<>>
    /\ outcome' = [outcome EXCEPT !.bf =
           [status |-> "returned",
            result |-> IF ~is_solved_attr(active) THEN "None" ELSE active,
            calls |-> calls]]
    /\ pc' = "copy2"
    /\ UNCHANGED <<heap, puzzles, file, input, active, stack, calls, last, earlier, nops, backtracks>>

----------------------------------------------------------------------------
(* Intelligent_Solver_Heuristic *)

\* an entry [square, set] of the list `remaining` is the pair <<square, set>>

\* the sort key without the square: (len(l[1]),)
KeyLess_size_only(a, b) == Cardinality(a[2]) < Cardinality(b[2])

\* the sort key (len(l[1]), l[0], l): squares differ, so l itself never decides
KeyLess(a, b) ==
    \/ Cardinality(a[2]) < Cardinality(b[2])
    \/ /\ Cardinality(a[2]) = Cardinality(b[2])
       /\ \/ a[1][1] < b[1][1]
          \/ a[1][1] = b[1][1] /\ a[1][2] < b[1][2]

\* a stable sort of the list l by the key: the entry at place p of the result
\* is the entry l[k] that p - 1 entries come before, an entry coming before
\* another one if its key is less, or if neither key is less and it stands
\* earlier in l
Sorted(l) ==
    [p \in 1..Len(l) |->
        l[CHOOSE k \in 1..Len(l) :
             Cardinality({j \in 1..Len(l) :
                             \/ KeyLess(l[j], l[k])
                             \/ /\ ~KeyLess(l[k], l[j])
                                /\ j < k}) = p - 1]]

\* sorted(list, key=...); the list is worked out once, then sorted
sorted(list) == CHOOSE result \in {Sorted(l) : l \in {list}} : TRUE

\* iteration over a set of small integers: CPython keeps an integer n at slot
\* n of the set's table as long as n is below the table's size (8 or more), so
\* the sets of this model (values up to the largest region, below 8) are
\* iterated in ascending order
RECURSIVE Ascending(_)
Ascending(set) ==
    IF set = {}
    THEN <<>>
    ELSE LET m == CHOOSE x \in set : \A y \in set : x <= y
         IN  <<m>> \o Ascending(set \ {m})

\* `possible` of a region: 1..len(region) less the numbers its clues use
Possible(h, self, region) ==
    (1..Len(region)) \ {get(h, self, region[j]) : j \in 1..Len(region)}

\* the reduction without its `check col` half
Reduce_row_only(h, self, square, possible) ==
    LET g == h[self.puzzle] IN
    {v \in possible :
        ~\E col \in 0..(self.width - 1) :
            /\ g[square[1]][col] # Empty
            /\ g[square[1]][col] = v
            /\ Abs(square[2] - col) <= v}

\* what `reduce remaining possible values` leaves of an empty square's set:
\* every clue num of its row or column at distance <= num is discarded
Reduce(h, self, square, possible) ==
    LET g == h[self.puzzle] IN
    {v \in possible :
        /\ ~\E col \in 0..(self.width - 1) :
              /\ g[square[1]][col] # Empty
              /\ g[square[1]][col] = v
              /\ Abs(square[2] - col) <= v
        /\ ~\E row \in 0..(self.height - 1) :
              /\ g[row][square[2]] # Empty
              /\ g[row][square[2]] = v
              /\ Abs(square[1] - row) <= v}

RECURSIVE RemainingOfRegion_all(_, _, _, _)

\* the list of squares to solve without the filter on clue squares
RemainingOfRegion_all(h, self, region, j) ==
    IF j > Len(region)
    THEN <<>>
    ELSE << <<region[j], Reduce(h, self, region[j], Possible(h, self, region))>> >>
         \o RemainingOfRegion_all(h, self, region, j + 1)

RECURSIVE RemainingOfRegion(_, _, _, _)

\* the entries of remaining_dict that are sets, for the squares of a region
\* from index j on
RemainingOfRegion(h, self, region, j) ==
    IF j > Len(region)
    THEN <<>>
    ELSE (IF get(h, self, region[j]) = Empty
          THEN << <<region[j], Reduce(h, self, region[j], Possible(h, self, region))>> >>
          ELSE <<>>)
         \o RemainingOfRegion(h, self, region, j + 1)

RECURSIVE RemainingFrom(_, _, _)

\* the same for the regions from index i on, in the order of puzzle.regions
RemainingFrom(h, self, i) ==
    IF i > Len(self.regions)
    THEN <<>>
    ELSE RemainingOfRegion(h, self, self.regions[i], 1) \o RemainingFrom(h, self, i + 1)

\* solve, lines 22-83: the sorted list of the squares to solve
initial_remaining(h, self) == sorted(RemainingFrom(h, self, 1))

\* update_remaining with the row and column checks ignoring the distance
Narrow_any_distance(elem, row, col, value, region_squares) ==
    <<elem[1], IF elem[1][1] = row \/ elem[1][2] = col \/ elem[1] \in region_squares
               THEN elem[2] \ {value} ELSE elem[2]>>

\* what update_remaining makes of one entry
Narrow(elem, row, col, value, region_squares) ==
    LET in_row == elem[1][1] = row /\ Abs(col - elem[1][2]) <= value
        in_col == elem[1][2] = col /\ Abs(row - elem[1][1]) <= value
        in_region == elem[1] \in region_squares
    IN  <<elem[1], IF in_row \/ in_col \/ in_region
                   THEN elem[2] \ {value} ELSE elem[2]>>

\* update_remaining with `temp = elem[1]` for `temp = set(elem[1])`: the sets
\* of the list passed in are narrowed themselves
update_remaining_in_place(remaining, row, col, value, self) ==
    LET region == get_region(self, <<row, col>>)
        region_squares == {region[j] : j \in 1..Len(region)}
        narrowed == [k \in 1..Len(remaining) |->
                        Narrow(remaining[k], row, col, value, region_squares)]
    IN  [ret |-> sorted(narrowed), remaining |-> narrowed]

\* update_remaining: the list returned, and the list passed in as it is
\* afterwards (every set is copied before a value is discarded from it)
update_remaining(remaining, row, col, value, self) ==
    LET region == get_region(self, <<row, col>>)
        region_squares == {region[j] : j \in 1..Len(region)}
    IN  [ret |-> sorted([k \in 1..Len(remaining) |->
                            Narrow(remaining[k], row, col, value, region_squares)]),
         remaining |-> remaining]

\* a call of solve_rec; `entry` is the model's record of the grid the call
\* found when it was entered
HFrame(remaining) ==
    [remaining |-> remaining, row |-> 0, col |-> 0, todo |-> <<>>, at |-> "enter",
     entry |-> <<>>]

\* solve counting its own call of solve_rec in advance: calls = [1]
HSolve_calls_from_one ==
    /\ pc = "h_solve"
    /\ active' = "puzzle_copy_2"
    /\ calls' = 1
    /\ backtracks' = 0
    /\ stack' = <<HFrame(initial_remaining(heap, puzzles["puzzle_copy_2"]))>>
    /\ pc' = "h_rec"
    /\ UNCHANGED <<heap, puzzles, file, input, outcome, last, earlier, nops>>

\* solve, up to the call of solve_rec(puzzle, remaining, calls)
HSolve ==
    /\ pc = "h_solve"
    /\ active' = "puzzle_copy_2"
    /\ calls' = 0
    /\ backtracks' = 0
    /\ stack' = <<HFrame(initial_remaining(heap, puzzles["puzzle_copy_2"]))>>
    /\ pc' = "h_rec"
    /\ UNCHANGED <<heap, puzzles, file, input, outcome, last, earlier, nops>>

\* solve_rec from its entry to the return, the start of the loop, or the
\* failing index of line 144
HEnter ==
    /\ pc = "h_rec" /\ stack # <<>> /\ Top.at = "enter"
    /\ calls' = calls + 1
    /\ LET s == is_solved(heap, puzzles[active]) IN
         IF s.ret
         THEN /\ puzzles' = [puzzles EXCEPT ![active] = s.self]
              /\ stack' = Pop
              /\ UNCHANGED <<pc, outcome>>
         ELSE IF Top.remaining = <<>>
         THEN \* remaining[0] raises IndexError; solve does not return
              /\ outcome' = [outcome EXCEPT !.h =
                     [status |-> "IndexError", result |-> "", calls |-> calls + 1]]
              /\ stack' = <<>>
              /\ pc' = "done"
              /\ UNCHANGED puzzles
         ELSE LET current == Top.remaining[1] IN
              /\ stack' = SetTop([Top EXCEPT !.row = current[1][1],
                                             !.col = current[1][2],
                                             !.todo = Ascending(current[2]),
                                             !.at = "loop",
                                             !.entry = heap[puzzles[active].puzzle]])
              /\ UNCHANGED <<puzzles, pc, outcome>>
    /\ UNCHANGED <<heap, file, input, active, last, earlier, nops, backtracks>>

\* one pass of the for loop up to the end of line 150: the next num, test, and
\* update_remaining with the recursive call when the test succeeded
HTest ==
    /\ pc = "h_rec" /\ stack # <<>> /\ Top.at = "loop"
    /\ Top.todo # <<>>
    /\ LET num == Head(Top.todo)
           t == test(heap, puzzles[active], Top.row, Top.col, num)
           here == [Top EXCEPT !.todo = Tail(Top.todo), !.at = "check"]
           \* remaining[1:] is a new list of the same [square, set] entries
           u == update_remaining(Tail(Top.remaining), Top.row, Top.col, num,
                                 t.self)
           new_remaining == u.ret
       IN  /\ heap' = t.heap
           /\ puzzles' = [puzzles EXCEPT ![active] = t.self]
           /\ last' = Call("test", active, Top.row, Top.col, num, t.ret)
           /\ stack' = IF t.ret
                       THEN Append(SetTop([here EXCEPT !.remaining =
                                              <<Head(Top.remaining)>> \o u.remaining]),
                                   HFrame(new_remaining))
                       ELSE SetTop(here)
    /\ UNCHANGED <<file, input, pc, active, calls, outcome, earlier, nops, backtracks>>

\* lines 151-152
HCheck ==
    /\ pc = "h_rec" /\ stack # <<>> /\ Top.at = "check"
    /\ LET s == is_solved(heap, puzzles[active]) IN
         /\ puzzles' = [puzzles EXCEPT ![active] = s.self]
         /\ stack' = IF s.ret THEN Pop ELSE SetTop([Top EXCEPT !.at = "loop"])
    /\ UNCHANGED <<heap, file, input, pc, active, calls, outcome, last, earlier, nops, backtracks>>

\* the loop has ended: lines 153 and 155
HBacktrack ==
    /\ pc = "h_rec" /\ stack # <<>> /\ Top.at = "loop"
    /\ Top.todo = <<>>
    /\ LET b == backtrack(heap, puzzles[active], Top.row, Top.col) IN
         /\ heap' = b.heap
         /\ puzzles' = [puzzles EXCEPT ![active] = b.self]
    /\ last' = Call("backtrack", active, Top.row, Top.col, 0, FALSE)
    /\ backtracks' = backtracks + 1
    /\ stack' = Pop
    /\ UNCHANGED <<file, input, pc, active, calls, outcome, earlier, nops>>

\* solve, from the return of solve_rec (which returns the puzzle) on
HSolveReturn ==
    /\ pc = "h_rec" /\ stack = <<>>
    /\ outcome' = [outcome EXCEPT !.h =
           [status |-> "returned",
            result |-> IF ~is_solved_attr(active) THEN "None" ELSE active,
            calls |-> calls]]
    /\ pc' = "done"
    /\ UNCHANGED <<heap, puzzles, file, input, active, stack, calls, last, earlier, nops, backtracks>>

----------------------------------------------------------------------------
(* The run of compare on one puzzle.  A solver that ends in an IndexError  *)
(* ends its own run; the other solver is still run on its own copy, as a   *)
(* caller that runs the two solvers separately does.                       *)

Next ==
    \/ Copy1
    \/ BFSolve
    \/ BFEnter
    \/ BFTest
    \/ BFCheck
    \/ BFBacktrack
    \/ BFTailReturn
    \/ BFSolveReturn
    \/ Copy2
    \/ HSolve
    \/ HEnter
    \/ HTest
    \/ HCheck
    \/ HBacktrack
    \/ HSolveReturn

Spec == Init /\ [][Next]_vars

\* the interpreter keeps running the program: a step that can be taken is taken
FairSpec == Init /\ [][Next]_vars /\ WF_vars(Next)

----------------------------------------------------------------------------
(* The run of compare on a larger catalogue: the puzzles above and those of  *)
(* a column of seven cells, a region of four above a region of three.       *)

CallShapes ==
    Shapes \cup {Shape(7, 1, {<<2, 1>>, <<4, 1>>, <<6, 1>>, <<10, 1>>, <<12, 1>>})}

InitCalls == InitOn(CallShapes)

SpecCalls == InitCalls /\ [][Next]_vars

----------------------------------------------------------------------------
(* Reading a puzzle file: compare before its first line, and read_puzzle on *)
(* a file of any wall layout of the grids up to 3 x 3.                      *)

LayoutSizes == {<<1, 1>>, <<1, 2>>, <<2, 1>>, <<1, 3>>, <<3, 1>>, <<2, 2>>,
                <<2, 3>>, <<3, 2>>, <<1, 4>>, <<4, 1>>, <<3, 3>>}

LayoutShapes ==
    UNION {{Shape(hw[1], hw[2], open) : open \in SUBSET Inner(hw[1], hw[2])} :
              hw \in LayoutSizes}

InitRead ==
    /\ heap = <<>>
    /\ puzzles = <<>>
    /\ file = Shape(0, 0, {})
    /\ input = <<>>
    /\ pc = "read"
    /\ active = ""
    /\ stack = <<>>
    /\ calls = 0
    /\ backtracks = 0
    /\ outcome = [bf |-> NoOutcome, h |-> NoOutcome]
    /\ last = NoCall
    /\ earlier = NoCall
    /\ nops = 0

\* puzzle = read_puzzle(puzzle_file), the file holding at most one clue
Read ==
    /\ pc = "read"
    /\ \E shape \in LayoutShapes :
         \E K \in SUBSET Cells(shape.height, shape.width) :
           /\ Cardinality(K) <= 1
           /\ LET puzzle_squares ==
                      [row \in 0..(shape.height - 1) |->
                          [col \in 0..(shape.width - 1) |->
                              IF <<row, col>> \in K THEN 1 ELSE Empty]]
              IN  /\ heap' = <<puzzle_squares>>
                  /\ puzzles' = ("puzzle" :> read_puzzle(shape, puzzle_squares))
                  /\ file' = shape
                  /\ input' = puzzle_squares
    /\ pc' = "copy1"
    /\ UNCHANGED <<active, stack, calls, backtracks, outcome, last, earlier, nops>>

SpecRead == InitRead /\ [][Read]_vars

----------------------------------------------------------------------------
(* Direct use of a Puzzle object: any test, backtrack and is_solved call,   *)
(* on any cell, in any order, on the puzzles of the smaller shapes.        *)

ApiShapes ==
    {shape \in Shapes : shape.height * shape.width <= 3}
        \cup {Shape(2, 2, {<<1, 2>>, <<3, 2>>})}

InitAPI == InitOn(ApiShapes)

ApiTest ==
    /\ nops < MaxOps
    /\ LET self == puzzles["puzzle"] IN
       \E row \in 0..(self.height - 1), col \in 0..(self.width - 1),
          num \in 1..(self.height * self.width) :
         LET t == test(heap, self, row, col, num) IN
           /\ heap' = t.heap
           /\ puzzles' = [puzzles EXCEPT !["puzzle"] = t.self]
           /\ last' = Call("test", "puzzle", row, col, num, t.ret)
    /\ earlier' = last
    /\ nops' = nops + 1
    /\ UNCHANGED <<file, input, pc, active, stack, calls, backtracks, outcome>>

ApiBacktrack ==
    /\ nops < MaxOps
    /\ LET self == puzzles["puzzle"] IN
       \E row \in 0..(self.height - 1), col \in 0..(self.width - 1) :
         LET b == backtrack(heap, self, row, col) IN
           /\ heap' = b.heap
           /\ puzzles' = [puzzles EXCEPT !["puzzle"] = b.self]
           /\ last' = Call("backtrack", "puzzle", row, col, 0, FALSE)
    /\ earlier' = last
    /\ nops' = nops + 1
    /\ UNCHANGED <<file, input, pc, active, stack, calls, backtracks, outcome>>

ApiIsSolved ==
    /\ nops < MaxOps
    /\ LET s == is_solved(heap, puzzles["puzzle"]) IN
         /\ puzzles' = [puzzles EXCEPT !["puzzle"] = s.self]
         /\ last' = Call("is_solved", "puzzle", 0, 0, 0, s.ret)
    /\ earlier' = last
    /\ nops' = nops + 1
    /\ UNCHANGED <<heap, file, input, pc, active, stack, calls, backtracks, outcome>>

NextAPI ==
    \/ ApiTest
    \/ ApiBacktrack
    \/ ApiIsSolved

SpecAPI == InitAPI /\ [][NextAPI]_vars

----------------------------------------------------------------------------
(* The rules of the puzzle, stated on a grid *)

Grid(name) == heap[puzzles[name].puzzle]

Copies == DOMAIN puzzles \ {"puzzle"}

\* equal values at positions p1 < p2 of a line are more than the value apart
Separated(line) ==
    \A p1 \in DOMAIN line, p2 \in DOMAIN line :
        (p1 < p2 /\ line[p1] # Empty /\ line[p1] = line[p2]) => p2 - p1 > line[p1]

RowRule(g, row) == Separated(g[row])

ColRule(g, col) == Separated([row \in DOMAIN g |-> g[row][col]])

\* no value appears twice among the filled cells of the region
RegionRule(g, region) ==
    \A i \in 1..Len(region), j \in 1..Len(region) :
        (i < j /\ g[region[i][1]][region[i][2]] # Empty)
            => g[region[i][1]][region[i][2]] # g[region[j][1]][region[j][2]]

Filled(g) == \A row \in DOMAIN g : \A col \in DOMAIN g[row] : g[row][col] # Empty

EmptyCount(g) ==
    Cardinality({sq \in UNION {{<<row, col>> : col \in DOMAIN g[row]} : row \in DOMAIN g} :
                    g[sq[1]][sq[2]] = Empty})

SolvedRule(g, self) ==
    /\ Filled(g)
    /\ \A row \in 0..(self.height - 1) : RowRule(g, row)
    /\ \A col \in 0..(self.width - 1) : ColRule(g, col)
    /\ \A i \in 1..Len(self.regions) : RegionRule(g, self.regions[i])

----------------------------------------------------------------------------
(* Claims *)

\* C1: is_solved() returns True exactly when every cell is filled, every row
\* and every column satisfies the separation rule and no region repeats a
\* value, whatever the size of the grid.
C1_IsSolvedIffRules ==
    \A name \in DOMAIN puzzles :
        is_solved(heap, puzzles[name]).ret <=> SolvedRule(Grid(name), puzzles[name])

\* C2: a solver whose search ends without the puzzle being solved returns
\* None; it returns the puzzle object only when the puzzle is solved.
C2_NoneUnlessSolved ==
    /\ outcome.bf.status = "returned" =>
          outcome.bf.result = IF is_solved(heap, puzzles["puzzle_copy_1"]).ret
                              THEN "puzzle_copy_1" ELSE "None"
    /\ outcome.h.status = "returned" =>
          outcome.h.result = IF is_solved(heap, puzzles["puzzle_copy_2"]).ret
                             THEN "puzzle_copy_2" ELSE "None"

EmptyCells(g) ==
    {sq \in UNION {{<<row, col>> : col \in DOMAIN g[row]} : row \in DOMAIN g} :
        g[sq[1]][sq[2]] = Empty}

Fill(g, f) ==
    [row \in DOMAIN g |->
        [col \in DOMAIN g[row] |->
            IF g[row][col] = Empty THEN f[<<row, col>>] ELSE g[row][col]]]

\* every way to fill the empty cells of g with values of 1..size of the cell's
\* region such that all the rules hold
Solutions(g, self) ==
    LET largest == CHOOSE n \in 1..(self.height * self.width) :
                      /\ \E i \in 1..Len(self.regions) : Len(self.regions[i]) = n
                      /\ \A i \in 1..Len(self.regions) : Len(self.regions[i]) <= n
    IN  {Fill(g, f) : f \in {f \in [EmptyCells(g) -> 1..largest] :
                                /\ \A sq \in EmptyCells(g) :
                                      f[sq] <= Len(self.region_map[sq])
                                /\ SolvedRule(Fill(g, f), self)}}

EndsSolved(name) ==
    /\ is_solved(heap, puzzles[name]).ret
    /\ SolvedRule(Grid(name), puzzles[name])

\* C3: on copies of the same well-formed puzzle, the brute-force solver ends
\* with a solved grid exactly when the heuristic solver does, and when the
\* puzzle has exactly one solution both end with that grid.
C3_SolversAgree ==
    pc = "done" =>
        /\ is_solved(heap, puzzles["puzzle_copy_1"]).ret
              <=> is_solved(heap, puzzles["puzzle_copy_2"]).ret
        /\ EndsSolved("puzzle_copy_1") <=> EndsSolved("puzzle_copy_2")
        /\ LET sols == Solutions(input, puzzles["puzzle"]) IN
             Cardinality(sols) = 1 =>
                 /\ EndsSolved("puzzle_copy_1") /\ Grid("puzzle_copy_1") \in sols
                 /\ EndsSolved("puzzle_copy_2") /\ Grid("puzzle_copy_2") \in sols

\* both solvers have finished on a puzzle with several empty cells and exactly
\* one solution
C3_Witness ==
    /\ pc = "done"
    /\ Cardinality(EmptyCells(input)) >= 3
    /\ Cardinality(Solutions(input, puzzles["puzzle"])) = 1
    /\ puzzles["puzzle_copy_1"].solved
    /\ puzzles["puzzle_copy_2"].solved

\* C4: when a solver's puzzle is reported solved, the values of every region
\* are exactly 1..size of the region, each once.
C4_SolvedRegionsArePermutations ==
    \A name \in Copies :
        is_solved(heap, puzzles[name]).ret =>
            \A i \in 1..Len(puzzles[name].regions) :
                LET region == puzzles[name].regions[i]
                    value(j) == Grid(name)[region[j][1]][region[j][2]]
                IN  /\ {value(j) : j \in 1..Len(region)} = 1..Len(region)
                    /\ \A j \in 1..Len(region), k \in 1..Len(region) :
                          j # k => value(j) # value(k)

\* the heuristic solver has returned a solved puzzle in which it placed
\* several values
C4_Witness ==
    /\ outcome.h.status = "returned"
    /\ puzzles["puzzle_copy_2"].solved
    /\ Cardinality(EmptyCells(input)) >= 3

\* C5: at every point of a solver's run, empty_slots_left is the number of
\* cells that hold the empty marker.
C5_EmptySlotsLeftIsCount ==
    \A name \in DOMAIN puzzles :
        puzzles[name].empty_slots_left = EmptyCount(Grid(name))

\* C6: a test that succeeds on an empty cell, followed at once by backtrack on
\* the same cell, leaves the grid and empty_slots_left as before the test.
C6_TestThenBacktrackRestores ==
    (/\ last.op = "backtrack"
     /\ earlier.op = "test"
     /\ earlier.ret
     /\ earlier.obj = last.obj /\ earlier.row = last.row /\ earlier.col = last.col
     /\ earlier.heap[earlier.puzzles[earlier.obj].puzzle][earlier.row][earlier.col]
            = Empty)
        => /\ Grid(last.obj) = earlier.heap[earlier.puzzles[earlier.obj].puzzle]
           /\ puzzles[last.obj].empty_slots_left
                 = earlier.puzzles[earlier.obj].empty_slots_left

\* a successful test on an empty cell was followed by backtrack on that cell
C6_Witness ==
    /\ last.op = "backtrack"
    /\ earlier.op = "test"
    /\ earlier.ret
    /\ earlier.obj = last.obj /\ earlier.row = last.row /\ earlier.col = last.col
    /\ earlier.heap[earlier.puzzles[earlier.obj].puzzle][earlier.row][earlier.col]
           = Empty

\* C7: a test that returns False leaves the whole grid and empty_slots_left
\* as they were; a test that returns True leaves num in the cell with the
\* cell's row, column and region satisfying their rules.
C7_TestCommitsOnlyValid ==
    last.op = "test" =>
        IF last.ret
        THEN LET g == Grid(last.obj) IN
             /\ g[last.row][last.col] = last.num
             /\ RowRule(g, last.row)
             /\ ColRule(g, last.col)
             /\ RegionRule(g, puzzles[last.obj].region_map[<<last.row, last.col>>])
        ELSE /\ heap = last.heap
             /\ puzzles[last.obj].empty_slots_left
                   = last.puzzles[last.obj].empty_slots_left

\* a test on a filled cell has returned False
C7_Witness ==
    /\ last.op = "test"
    /\ ~last.ret
    /\ last.heap[last.puzzles[last.obj].puzzle][last.row][last.col] # Empty
    /\ last.heap[last.puzzles[last.obj].puzzle][last.row][last.col] # last.num

\* C8: a cell that held a clue in the input holds it throughout both solver
\* runs, and no solver calls test or backtrack on such a cell.
C8_CluesKept ==
    /\ \A name \in Copies :
          \A row \in DOMAIN input : \A col \in DOMAIN input[row] :
              input[row][col] # Empty => Grid(name)[row][col] = input[row][col]
    /\ last.op \in {"test", "backtrack"} => input[last.row][last.col] = Empty

\* both solvers have run, with placements, on a puzzle that has clues
C8_Witness ==
    /\ pc = "done"
    /\ last.op = "backtrack"
    /\ Cardinality(EmptyCells(input)) >= 2
    /\ \E row \in DOMAIN input : \E col \in DOMAIN input[row] : input[row][col] # Empty

\* C9: no step of a solver on its copy changes the original or the other
\* copy: their grid, empty_slots_left and solved flag stay as they are.
C9_CopiesIndependent ==
    [][\A name \in DOMAIN puzzles :
          name # active' =>
              /\ puzzles'[name] = puzzles[name]
              /\ heap'[puzzles[name].puzzle] = heap[puzzles[name].puzzle]]_vars

\* the heuristic solver has placed a value on its copy while the brute-force
\* solver's copy and the original hold other grids
C9_Witness ==
    /\ pc = "h_rec"
    /\ last.op = "test" /\ last.ret
    /\ Grid("puzzle_copy_1") # Grid("puzzle_copy_2")
    /\ Grid("puzzle_copy_1") # Grid("puzzle")
    /\ Grid("puzzle") # Grid("puzzle_copy_2")

\* C10: on a puzzle without a solution no solver ends in a fault.
C10_NoFaultWhenUnsolvable ==
    /\ ~(outcome.bf.status = "IndexError"
            /\ Solutions(input, puzzles["puzzle"]) = {})
    /\ ~(outcome.h.status = "IndexError"
            /\ Solutions(input, puzzles["puzzle"]) = {})

\* the grid g with num in the cell (row, col)
Place(g, row, col, num) == [g EXCEPT ![row][col] = num]

\* C11: on every grid, is_valid(row, col, check_region) is True exactly when
\* row `row` and column `col` satisfy the separation rule and, if check_region
\* is true, no value appears twice among the filled cells of the region of
\* (row, col); is_region_valid is False for the missing region None.  The
\* grids are the current one and the one the latest test() was decided on.
C11_IsValidIffRules ==
    \A name \in DOMAIN puzzles :
        LET self == puzzles[name]
            tested == [last.heap EXCEPT ![self.puzzle][last.row][last.col] = last.num]
            heaps == {heap} \cup (IF last.op = "test" /\ last.obj = name
                                  THEN {tested} ELSE {})
        IN  /\ ~is_region_valid(heap, self, get_region(self, <<self.height, self.width>>))
            /\ \A h \in heaps :
                  \A row \in 0..(self.height - 1), col \in 0..(self.width - 1) :
                      LET g == h[self.puzzle] IN
                      /\ is_valid(h, self, row, col, FALSE)
                            <=> (RowRule(g, row) /\ ColRule(g, col))
                      /\ is_valid(h, self, row, col, TRUE)
                            <=> /\ RowRule(g, row)
                                /\ ColRule(g, col)
                                /\ RegionRule(g, self.region_map[<<row, col>>])

\* a test was rejected for a column in which two equal values are
\* exactly the value apart, the row and the region of the cell being in order
C11_Witness ==
    /\ last.op = "test"
    /\ ~last.ret
    /\ LET g == Place(last.heap[puzzles[last.obj].puzzle], last.row, last.col,
                       last.num) IN
         /\ RowRule(g, last.row)
         /\ RegionRule(g, puzzles[last.obj].region_map[<<last.row, last.col>>])
         /\ \E r \in DOMAIN g :
               /\ g[r][last.col] = last.num
               /\ Abs(r - last.row) = last.num

\* both solvers have returned with their puzzle solved
BothSolved ==
    /\ pc = "done"
    /\ outcome.bf.status = "returned" /\ puzzles["puzzle_copy_1"].solved
    /\ outcome.h.status = "returned" /\ puzzles["puzzle_copy_2"].solved

\* C12 as stated: on every puzzle that both solvers solve, the heuristic
\* solver counts at most as many solve_rec invocations as the brute-force
\* solver.
C12_HeuristicCallsAtMost ==
    BothSolved => outcome.h.calls <= outcome.bf.calls

\* C12 as amended: on every puzzle that both solvers solve and on which the
\* heuristic solver's search never calls backtrack(), the heuristic solver
\* counts one invocation per empty cell and one more, and that is at most
\* the brute-force solver's count.
C12_CallsWithoutBacktrack ==
    (BothSolved /\ backtracks = 0) =>
        /\ outcome.h.calls = EmptyCount(input) + 1
        /\ outcome.h.calls <= outcome.bf.calls

\* both solvers have solved a puzzle with clues and several empty cells, the
\* heuristic solver without a backtrack and in fewer invocations
C12_Witness ==
    /\ BothSolved
    /\ backtracks = 0
    /\ EmptyCount(input) >= 3
    /\ EmptyCount(input) < puzzles["puzzle"].height * puzzles["puzzle"].width
    /\ outcome.h.calls < outcome.bf.calls

\* C13: every backtrack(row, col) of a solver undoes a placement that the
\* same search step made with a successful test() and that is still in the
\* cell: the cell, never a clue cell, holds a value when backtrack is called.
C13_BacktrackUndoesPlacement ==
    last.op = "backtrack" =>
        /\ input[last.row][last.col] = Empty
        /\ last.heap[last.puzzles[last.obj].puzzle][last.row][last.col] # Empty

\* the clues of the input satisfy the rules
ValidClues ==
    /\ \A row \in DOMAIN input : RowRule(input, row)
    /\ \A col \in DOMAIN input[0] : ColRule(input, col)
    /\ \A i \in 1..Len(puzzles["puzzle"].regions) :
          RegionRule(input, puzzles["puzzle"].regions[i])

\* a heuristic solve_rec call is about to take the head of its work list
HSelects ==
    /\ pc = "h_rec" /\ stack # <<>> /\ Top.at = "enter"
    /\ ~is_solved(heap, puzzles[active]).ret
    /\ Top.remaining # <<>>

\* C14: in the heuristic solver, on a puzzle whose clues satisfy the rules,
\* the candidate set of the cell at the head of the work list is exactly the
\* set of values v of 1..size of the cell's region for which test(cell, v)
\* succeeds on the grid as it is.
C14_CandidatesAreTheValidValues ==
    (ValidClues /\ HSelects) =>
        LET current == Top.remaining[1]
            self == puzzles[active]
        IN  current[2] =
                {v \in 1..Len(self.region_map[current[1]]) :
                    test(heap, self, current[1][1], current[1][2], v).ret}

\* below the top call, on a puzzle with clues: the head's candidate set has
\* lost a value to a clue of its column and another to a placement, and
\* keeps one
C14_Witness ==
    /\ ValidClues /\ HSelects
    /\ Len(stack) >= 2
    /\ LET current == Top.remaining[1]
           self == puzzles[active]
       IN  /\ current[2] # {}
           /\ \E row \in DOMAIN input :
                 /\ input[row][current[1][2]] # Empty
                 /\ input[row][current[1][2]] \notin current[2]
                 /\ self.region_map[<<row, current[1][2]>>]
                        # self.region_map[current[1]]
                 /\ input[row][current[1][2]] <= Len(self.region_map[current[1]])
           /\ \E v \in 1..Len(self.region_map[current[1]]) :
                 /\ v \notin current[2]
                 /\ \A row \in DOMAIN input : \A col \in DOMAIN input[row] :
                       input[row][col] # v

\* the place of a square in row-major order
RowMajor(self, square) == square[1] * self.width + square[2]

\* C15: when a heuristic solve_rec call selects a cell, its work list holds
\* exactly the cells that are empty, each once, and the selected head has the
\* smallest candidate set of them, the first in row-major order among those
\* of that size.
C15_WorkListIsEmptyCellsSorted ==
    HSelects =>
        LET remaining == Top.remaining
            self == puzzles[active]
        IN  /\ {remaining[k][1] : k \in 1..Len(remaining)} = EmptyCells(Grid(active))
            /\ Len(remaining) = Cardinality(EmptyCells(Grid(active)))
            /\ \A k \in 2..Len(remaining) :
                  \/ Cardinality(remaining[1][2]) < Cardinality(remaining[k][2])
                  \/ /\ Cardinality(remaining[1][2]) = Cardinality(remaining[k][2])
                     /\ RowMajor(self, remaining[1][1]) < RowMajor(self, remaining[k][1])

\* a selection in which the size decides against a cell that comes earlier
\* in row-major order, and the row-major order decides between equal sizes
C15_Witness ==
    /\ HSelects
    /\ LET remaining == Top.remaining
           self == puzzles[active]
       IN  /\ \E k \in 2..Len(remaining) :
                 /\ Cardinality(remaining[1][2]) < Cardinality(remaining[k][2])
                 /\ RowMajor(self, remaining[k][1]) < RowMajor(self, remaining[1][1])
           /\ \E k \in 2..Len(remaining) :
                 Cardinality(remaining[1][2]) = Cardinality(remaining[k][2])

\* C16: update_remaining returns, for every cell of the list it is given, a
\* subset of that cell's candidate set and leaves the list it is given as it
\* was; so no step of the heuristic search changes the work list of a
\* solve_rec call that is still active, and a caller to which a recursive
\* call returns has the list it had before the placement.
C16_WorkListsKept ==
    [][(pc = "h_rec" /\ pc' = "h_rec") =>
          /\ \A i \in 1..Len(stack) :
                i <= Len(stack') => stack'[i].remaining = stack[i].remaining
          /\ Len(stack') > Len(stack) =>
                LET given == Tail(Top.remaining)
                    returned == stack'[Len(stack')].remaining
                IN  /\ Len(returned) = Len(given)
                    /\ \A k \in 1..Len(given) :
                          \E j \in 1..Len(returned) :
                              /\ returned[j][1] = given[k][1]
                              /\ returned[j][2] \subseteq given[k][2]]_vars

\* a recursive call has just returned unsolved to a caller whose list holds
\* two or more further cells, one of which the placement had narrowed
C16_Witness ==
    /\ pc = "h_rec" /\ stack # <<>> /\ Top.at = "check"
    /\ last.op = "backtrack"
    /\ Len(Top.remaining) >= 3
    /\ LET given == Tail(Top.remaining)
           u == update_remaining(given, Top.row, Top.col,
                                 Grid(active)[Top.row][Top.col], puzzles[active])
       IN  \E k \in 1..Len(given) : \E j \in 1..Len(u.ret) :
               /\ u.ret[j][1] = given[k][1]
               /\ u.ret[j][2] # given[k][2]

\* C17: once is_solved() has returned True on a solver's puzzle (the solved
\* flag is set), no test() or backtrack() is made on it any more, its grid
\* stays the one of that moment up to and after the solver's return, the
\* flag stays set and is_solved() computed afresh on the grid is True.
C17_SolvedStays ==
    [][\A name \in DOMAIN puzzles :
          puzzles[name].solved =>
              /\ puzzles'[name].solved
              /\ heap'[puzzles'[name].puzzle] = heap[puzzles[name].puzzle]
              /\ last' # last => last'.obj # name
              /\ is_solved(heap', puzzles'[name]).ret
              /\ is_solved(heap', [puzzles'[name] EXCEPT !.solved = FALSE]).ret]_vars

\* the brute-force solver is returning from a solved puzzle through a call
\* that had further values to try
C17_Witness ==
    /\ pc = "bf_rec"
    /\ puzzles[active].solved
    /\ \E i \in 1..Len(stack) :
          /\ stack[i].at = "check"
          /\ stack[i].num < stack[i].max_num

Joined(shape, a, b) ==
    /\ Abs(a[1] - b[1]) + Abs(a[2] - b[2]) = 1
    /\ <<a[1] + b[1] + 1, a[2] + b[2] + 1>> \in shape.open

RECURSIVE Connected(_, _)

\* the cells that a chain of joined cells links to a cell of the set
Connected(shape, set) ==
    LET more == set \cup {b \in Cells(shape.height, shape.width) :
                             \E a \in set : Joined(shape, a, b)}
    IN  IF more = set THEN set ELSE Connected(shape, more)

\* C19: the regions that read_puzzle extracts from a wall layout partition
\* the grid (every cell is in exactly one region tuple, once), region_map
\* maps every cell to the tuple that holds it, and the cells of a region are
\* exactly those linked to its first cell through joined neighbours.
C19_RegionsPartitionGrid ==
    pc # "read" =>
        LET self == puzzles["puzzle"]
            regions == self.regions
            cells == Cells(file.height, file.width)
        IN  /\ \A sq \in cells :
                  Cardinality({<<i, j>> \in (1..Len(regions)) \X (1..Cardinality(cells)) :
                                  j <= Len(regions[i]) /\ regions[i][j] = sq}) = 1
            /\ \A i \in 1..Len(regions) : \A j \in 1..Len(regions[i]) :
                  regions[i][j] \in cells
            /\ DOMAIN self.region_map = cells
            /\ \A sq \in cells :
                  /\ \E i \in 1..Len(regions) : self.region_map[sq] = regions[i]
                  /\ \E j \in 1..Len(self.region_map[sq]) : self.region_map[sq][j] = sq
            /\ \A i \in 1..Len(regions) :
                  {regions[i][j] : j \in 1..Len(regions[i])}
                      = Connected(file, {regions[i][1]})

\* a file was read in which a region bends: one of its cells is linked to the
\* first one only through a step to the left, and another region lies beside
C19_Witness ==
    /\ pc # "read"
    /\ Len(puzzles["puzzle"].regions) >= 2
    /\ \E i \in 1..Len(puzzles["puzzle"].regions) :
          LET region == puzzles["puzzle"].regions[i] IN
          /\ Len(region) >= 3
          /\ \E j \in 1..Len(region) :
                /\ region[j][2] < region[1][2]
                /\ region[j][1] > region[1][1]

\* the grid g1 comes before g2, or is g2, in the lexicographic order of the
\* cell values read in row-major order
LexLeq(g1, g2, self) ==
    \/ g1 = g2
    \/ \E sq \in Cells(self.height, self.width) :
          /\ g1[sq[1]][sq[2]] < g2[sq[1]][sq[2]]
          /\ \A before \in Cells(self.height, self.width) :
                RowMajor(self, before) < RowMajor(self, sq)
                    => g1[before[1]][before[2]] = g2[before[1]][before[2]]

\* C20: on a puzzle whose clues satisfy the rules and that has a solution,
\* the brute-force solver returns with its grid solved, and the grid is the
\* solution that comes first in the lexicographic order of the cell values
\* read in row-major order.
C20_BruteForceFindsFirstSolution ==
    (pc = "copy2" /\ ValidClues) =>
        LET sols == Solutions(input, puzzles["puzzle"]) IN
        sols # {} =>
            /\ outcome.bf.status = "returned"
            /\ puzzles["puzzle_copy_1"].solved
            /\ Grid("puzzle_copy_1") \in sols
            /\ \A g \in sols : LexLeq(Grid("puzzle_copy_1"), g, puzzles["puzzle"])

\* the brute-force solver has returned from a puzzle with clues and several
\* solutions, after undoing placements on the way
C20_Witness ==
    /\ pc = "copy2"
    /\ ValidClues
    /\ backtracks >= 1
    /\ puzzles["puzzle_copy_1"].solved
    /\ EmptyCount(input) < puzzles["puzzle"].height * puzzles["puzzle"].width
    /\ Cardinality(Solutions(input, puzzles["puzzle"])) >= 2

\* a step in which the solve_rec call on top of the stack returns to its
\* caller and is_solved has not accepted the grid
ReturnsUnsolved ==
    /\ pc \in {"bf_rec", "h_rec"}
    /\ pc' = pc
    /\ stack # <<>>
    /\ stack' = Pop
    /\ ~puzzles'[active].solved

\* C21: whenever a solve_rec call of either solver returns and the puzzle is
\* not solved, every cell that was empty when the call was entered is empty
\* again and every other cell holds what it held then; when the call is the
\* top-level one, the grid is the input grid.
C21_UnsolvedReturnRestoresGrid ==
    [][ReturnsUnsolved =>
          LET self == puzzles'[active]
              grid == heap'[self.puzzle]
          IN  /\ \A sq \in Cells(self.height, self.width) :
                    grid[sq[1]][sq[2]] = IF Top.entry[sq[1]][sq[2]] = Empty
                                         THEN Empty
                                         ELSE Top.entry[sq[1]][sq[2]]
              /\ Len(stack) = 1 => grid = input]_vars

\* the heuristic solver's top-level search is exhausted after the brute-force
\* one; in both, calls below the top-level one had placed values and returned
\* without a solution
C21_Witness ==
    /\ pc = "done"
    /\ outcome.bf.status = "returned"
    /\ outcome.h.status = "returned"
    /\ ~puzzles["puzzle_copy_1"].solved
    /\ ~puzzles["puzzle_copy_2"].solved
    /\ outcome.bf.calls >= 3
    /\ backtracks >= 2
    /\ EmptyCount(input) >= 2
    /\ Grid("puzzle_copy_1") = input
    /\ Grid("puzzle_copy_2") = input

============================================================================
